---- MODULE Spec2Model ----
(***************************************************************************)
(* State-machine model of the ESPN scoreboard provider                     *)
(* (src/providers/ESPN.js): getLeaguePath, getScores, formatScores,        *)
(* getOrdinal, getPeriod and getFinalOT.                                   *)
(*                                                                         *)
(* Text that the code compares or searches (team abbreviations, team       *)
(* locations, display names, score text) is a sequence of character codes, *)
(* so that "SDSU" and "SDSU " differ and JavaScript's string order can be  *)
(* computed.  Text that is only produced (status strings, URLs, log lines) *)
(* is a TLA+ string.  A nullable JavaScript value is <<>> for null and     *)
(* <<v>> for the value v.                                                  *)
(***************************************************************************)
EXTENDS Integers, Sequences, FiniteSets, TLC

VARIABLES
    \* ---- one getScores invocation -------------------------------------
    pc,          \* "idle" | "requested" | "parsing" | "done"
    league,      \* the league argument
    teams,       \* the teams argument (Null or Some(list))
    requests,    \* URLs handed to request(), in order
    response,    \* Null, or Some of what request() passed to its callback
    thrown,      \* errors getScores signalled to its caller (throw, or error argument)
    callbacks,   \* arguments the caller's callback was invoked with
    log,         \* console.log lines: [kind, league, cause]
    parseCalls,  \* number of parseJSON invocations
    formatCalls, \* number of formatScores invocations made by getScores
    \* ---- formatScores applied to one data object ------------------------
    fLeague,     \* league argument of the formatScores calls
    fTeams,      \* teams argument of the formatScores calls
    input0,      \* data.events as decoded, before any call
    events,      \* data.events of the live data object (mutable)
    pre,         \* data.events as it was when the last call started
    refs,        \* filteredGamesList of the last call: indices into pre
    outs,        \* return values of the successive calls on the data object
    perm,        \* permutation applied to a fresh copy of input0 (or <<>>)
    permOut      \* return value of the call on that permuted copy

gsVars == <<pc, league, teams, requests, response, thrown, callbacks, log,
            parseCalls, formatCalls>>
fmtVars == <<fLeague, fTeams, input0, events, pre, refs, outs, perm, permOut>>
vars == <<gsVars, fmtVars>>

----------------------------------------------------------------------------
(* Bounds of the model *)

\* most games in one scoreboard document
MaxGames == 2
\* most successive formatScores calls on one data object
MaxCalls == 2

----------------------------------------------------------------------------
(* JavaScript values *)

Null == <<>>
Some(v) == <<v>>

\* the not-a-number value parseInt returns; a number n is Some(n)
NaN == Null

SP == 32

SDSU == <<83,68,83,85>>
SDSU_SP == <<83,68,83,85,32>>
DUKE == <<68,85,75,69>>
SouthDakotaState == <<83,111,117,116,104,32,68,97,107,111,116,97,32,83,116,97,116,101>>
SanDiegoState == <<83,97,110,32,68,105,101,103,111,32,83,116,97,116,101>>
DukeLoc == <<68,117,107,101>>

\* JavaScript's a < b on strings: lexicographic by code unit
RECURSIVE StrLess(_, _)
StrLess(a, b) ==
    IF b = <<>> THEN FALSE
    ELSE IF a = <<>> THEN TRUE
    ELSE IF Head(a) < Head(b) THEN TRUE
    ELSE IF Head(a) > Head(b) THEN FALSE
    ELSE StrLess(Tail(a), Tail(b))

\* String.prototype.indexOf: first 0-based position of t in s, or -1
StrIndexOf(s, t) ==
    LET hits == {i \in 1..(Len(s) - Len(t) + 1) : SubSeq(s, i, i + Len(t) - 1) = t}
    IN  IF hits = {} THEN -1 ELSE (CHOOSE i \in hits : \A j \in hits : i <= j) - 1

\* Array.prototype.indexOf: first 0-based position of x in arr, or -1
ArrIndexOf(arr, x) ==
    LET hits == {i \in 1..Len(arr) : arr[i] = x}
    IN  IF hits = {} THEN -1 ELSE (CHOOSE i \in hits : \A j \in hits : i <= j) - 1

IsDigit(c) == c >= 48 /\ c <= 57

RECURSIVE DigitsValue(_, _)
DigitsValue(s, acc) ==
    IF s = <<>> \/ ~IsDigit(Head(s)) THEN acc
    ELSE DigitsValue(Tail(s), acc * 10 + (Head(s) - 48))

RECURSIVE SkipSpaces(_)
SkipSpaces(s) == IF s /= <<>> /\ Head(s) = SP THEN SkipSpaces(Tail(s)) ELSE s

\* parseInt(text): leading blanks are skipped, an optional sign is read, the
\* leading run of digits is the value, no digit gives NaN
ParseInt(text) ==
    LET s == SkipSpaces(text)
        signed == s /= <<>> /\ Head(s) \in {43, 45}
        body == IF signed THEN Tail(s) ELSE s
        sign == IF signed /\ Head(s) = 45 THEN -1 ELSE 1
    IN  IF body = <<>> \/ ~IsDigit(Head(body)) THEN NaN
        ELSE Some(sign * DigitsValue(body, 0))

Pad2(n) == IF n < 10 THEN "0" \o ToString(n) ELSE ToString(n)

----------------------------------------------------------------------------
(* getLeaguePath, and the URL getScores builds *)

getLeaguePath(lg) ==
    CASE lg = "NCAAF" -> Some("football/college-football")
      [] lg = "NBA"   -> Some("basketball/nba")
      [] lg = "NCAAM" -> Some("basketball/mens-college-basketball")
      [] OTHER        -> Null

\* string concatenation turns null into the text "null"
ConcatOperand(v) == IF v = Null THEN "null" ELSE v[1]

\* moment(gameDate).format("YYYYMMDD")
FormatYYYYMMDD(d) == ToString(d.y) \o Pad2(d.m) \o Pad2(d.d)

BuildUrl(lg, gameDate) ==
    "http://site.api.espn.com/apis/site/v2/sports/"
        \o ConcatOperand(getLeaguePath(lg))
        \o "/scoreboard?dates="
        \o FormatYYYYMMDD(gameDate) \o "&limit=200"

----------------------------------------------------------------------------
(* getOrdinal, getPeriod, getFinalOT *)

getOrdinal(p) ==
    LET mod10 == p % 10
        mod100 == p % 100
    IN  IF mod10 = 1 /\ mod100 /= 11 THEN ToString(p) \o "<sup>ST</sup>"
        ELSE IF mod10 = 2 /\ mod100 /= 12 THEN ToString(p) \o "<sup>ND</sup>"
        ELSE IF mod10 = 3 /\ mod100 /= 13 THEN ToString(p) \o "<sup>RD</sup>"
        ELSE ToString(p) \o "<sup>TH</sup>"

getPeriod(lg, p) ==
    IF lg \in {"NCAAF", "NCAAM", "NBA"} /\ p = 5 THEN "OT"
    ELSE IF lg \in {"NCAAF", "NCAAM", "NBA"} /\ p > 5 THEN ToString(p - 4) \o "OT"
    ELSE getOrdinal(p)

getFinalOT(lg, p) ==
    IF lg \in {"NCAAF", "NCAAM", "NBA"} /\ p = 5 THEN " (OT)"
    ELSE IF lg \in {"NCAAF", "NCAAM", "NBA"} /\ p > 5
         THEN " (" \o ToString(p - 4) \o "OT)"
    ELSE ""

----------------------------------------------------------------------------
(* formatScores *)

\* moment.tz.guess(): the host's time zone, as minutes east of UTC
localTZ == -300

\* moment(date).tz(localTZ).format("h:mm a"); date is minutes after 00:00 UTC
FormatLocalTime(date) ==
    LET local == (date + localTZ) % 1440
        h24 == local \div 60
        h12 == IF h24 % 12 = 0 THEN 12 ELSE h24 % 12
    IN  ToString(h12) \o ":" \o Pad2(local % 60) \o " "
            \o (IF h24 < 12 THEN "am" ELSE "pm")

Range(s) == {s[i] : i \in DOMAIN s}

\* TeamsMatch looking at the first-listed competitor only
TeamsMatchFirstOnly(game, tms) ==
    ArrIndexOf(tms, game.competitors[1].team.abbreviation) /= -1

\* the filter callback: either competitor's abbreviation is in teams
TeamsMatch(game, tms) ==
    \/ ArrIndexOf(tms, game.competitors[1].team.abbreviation) /= -1
    \/ ArrIndexOf(tms, game.competitors[2].team.abbreviation) /= -1

\* filteredGamesList before sorting, as references (indices) into data.events
FilterRefs(evs, tms) ==
    IF tms /= Null
    THEN SelectSeq([i \in 1..Len(evs) |-> i], LAMBDA i : TeamsMatch(evs[i], tms[1]))
    ELSE [i \in 1..Len(evs) |-> i]

\* the abbreviation the sort callback reads as the away team's
AwayAbbreviation(game) ==
    IF game.competitors[1].homeAway = "away"
    THEN game.competitors[1].team.abbreviation
    ELSE game.competitors[2].team.abbreviation

\* CompareGames without the tie-break on the away team
CompareGamesTimeOnly(a, b) ==
    IF a.date < b.date THEN -1
    ELSE IF a.date > b.date THEN 1
    ELSE 0

\* the sort callback: start time, then away team short code
CompareGames(a, b) ==
    IF a.date < b.date THEN -1
    ELSE IF a.date > b.date THEN 1
    ELSE IF StrLess(AwayAbbreviation(a), AwayAbbreviation(b)) THEN -1
    ELSE IF StrLess(AwayAbbreviation(b), AwayAbbreviation(a)) THEN 1
    ELSE 0

\* insert reference x into the sorted list s, after every element not greater
RECURSIVE InsertRef(_, _, _)
InsertRef(evs, s, x) ==
    IF s = <<>> THEN <<x>>
    ELSE IF CompareGames(evs[s[Len(s)]], evs[x]) > 0
         THEN Append(InsertRef(evs, SubSeq(s, 1, Len(s) - 1), x), s[Len(s)])
         ELSE Append(s, x)

\* SortRefs leaving the list as it is
SortRefsUnsorted(evs, s) == s

\* Array.prototype.sort with the callback above (stable, as ECMAScript 2019
\* requires)
RECURSIVE SortRefs(_, _)
SortRefs(evs, s) ==
    IF s = <<>> THEN <<>>
    ELSE InsertRef(evs, SortRefs(evs, SubSeq(s, 1, Len(s) - 1)), s[Len(s)])

\* the switch on game.status.type.id: gameState, status and classes
StatusOf(lg, game) ==
    LET id == game.status.typeId
    IN  CASE id = "0" ->
               [gameState |-> 0, status |-> <<"TBD">>, classes |-> <<>>]
          [] id = "1" ->
               [gameState |-> 0, status |-> <<FormatLocalTime(game.date)>>,
                classes |-> <<>>]
          [] id \in {"2", "21", "24"} ->
               [gameState |-> 1,
                status |-> <<game.status.displayClock,
                             getPeriod(lg, game.status.period)>>,
                classes |-> <<>>]
          [] id = "3" ->
               [gameState |-> 2,
                status |-> <<"Final" \o getFinalOT(lg, game.status.period)>>,
                classes |-> <<>>]
          [] id \in {"4", "9", "10"} ->
               [gameState |-> 0, status |-> <<"Forfeit">>, classes |-> <<>>]
          [] id = "5" ->
               [gameState |-> 0, status |-> <<"Cancelled">>, classes |-> <<>>]
          [] id = "6" ->
               [gameState |-> 0, status |-> <<"Postponed">>, classes |-> <<>>]
          [] id \in {"7", "17"} ->
               \* classes.push["delay"] reads a property of the push function
               \* and calls nothing: classes stays empty
               [gameState |-> 1, status |-> <<"Delay">>, classes |-> <<>>]
          [] id = "8" ->
               [gameState |-> 0, status |-> <<"Suspended">>, classes |-> <<>>]
          [] id = "22" ->
               [gameState |-> 1,
                status |-> <<"END", getPeriod(lg, game.status.period)>>,
                classes |-> <<>>]
          [] id = "23" ->
               [gameState |-> 1, status |-> <<"HALFTIME">>, classes |-> <<>>]
          [] OTHER ->
               [gameState |-> 0, status |-> <<FormatLocalTime(game.date)>>,
                classes |-> <<>>]

\* HomeIndex trusting the feed to list the home team first
HomeIndexFirstListed(game) == 1

\* position in competitors of hTeamData (the other one is vTeamData)
HomeIndex(game) == IF game.competitors[1].homeAway = "away" THEN 2 ELSE 1

\* the condition of the SDSU override, for one competitor
IsSouthDakotaState(lg, c) ==
    /\ lg = "NCAAF"
    /\ c.team.abbreviation = SDSU
    /\ StrIndexOf(c.team.location, SouthDakotaState) /= -1

SetAbbreviation(game, i, abbr) ==
    [game EXCEPT !.competitors[i].team.abbreviation = abbr]

\* the game object after the SDSU override's assignment (if ... else if ...)
OverrideGame(lg, game) ==
    LET h == HomeIndex(game)
        v == 3 - h
    IN  IF IsSouthDakotaState(lg, game.competitors[h])
        THEN SetAbbreviation(game, h, SDSU_SP)
        ELSE IF IsSouthDakotaState(lg, game.competitors[v])
             THEN SetAbbreviation(game, v, SDSU_SP)
             ELSE game

LongName(lg, t) ==
    (IF lg = "NCAAF" \/ lg = "NCAAM" THEN t.abbreviation \o <<SP>> ELSE <<>>)
        \o t.shortDisplayName

\* the object pushed onto formattedGamesList for one game
FormatGame(lg, game) ==
    LET st == StatusOf(lg, game)
        g == OverrideGame(lg, game)
        hTeamData == g.competitors[HomeIndex(game)]
        vTeamData == g.competitors[3 - HomeIndex(game)]
    IN  [classes |-> st.classes,
         gameMode |-> st.gameState,
         hTeam |-> hTeamData.team.abbreviation,
         vTeam |-> vTeamData.team.abbreviation,
         hTeamLong |-> LongName(lg, hTeamData.team),
         vTeamLong |-> LongName(lg, vTeamData.team),
         hScore |-> ParseInt(hTeamData.score),
         vScore |-> ParseInt(vTeamData.score),
         status |-> st.status,
         usePngLogos |-> TRUE]

\* formatScores(league, data, teams) with data.events = evs: the returned list,
\* the sorted filteredGamesList (references into evs) and data.events afterwards.
\* filter() builds a new array of the same game objects; with teams null the
\* list is data.events itself, so sort() reorders data.events in place.
formatScores(lg, evs, tms) ==
    LET sorted == SortRefs(evs, FilterRefs(evs, tms))
        mutated == [i \in 1..Len(evs) |->
                       IF i \in Range(sorted) THEN OverrideGame(lg, evs[i])
                       ELSE evs[i]]
    IN  [out |-> [k \in 1..Len(sorted) |-> FormatGame(lg, evs[sorted[k]])],
         refs |-> sorted,
         events |-> IF tms = Null
                    THEN [k \in 1..Len(evs) |-> mutated[sorted[k]]]
                    ELSE mutated]

----------------------------------------------------------------------------
(* Inputs the model draws from *)

Leagues == {"NCAAF", "NBA", "NCAAM", "NHL"}

TeamFilters == {Null, Some(<<SDSU>>), Some(<<DUKE>>)}

\* <<league, teams>> of the formatScores calls
FormatArgs ==
    {<<"NCAAF", tms>> : tms \in TeamFilters}
    \cup {<<"NBA", Null>>, <<"NBA", Some(<<SDSU>>)>>, <<"NCAAM", Null>>,
          <<"NHL", Null>>}

GameDates == {[y |-> 2018, m |-> 1, d |-> 5], [y |-> 2018, m |-> 11, d |-> 24]}

SouthDakotaStateTeam ==
    [abbreviation |-> SDSU, location |-> SouthDakotaState,
     shortDisplayName |-> <<83,32,68,97,107,111,116,97,32,83,116>>]
SanDiegoStateTeam ==
    [abbreviation |-> SDSU, location |-> SanDiegoState,
     shortDisplayName |-> <<83,97,110,32,68,105,101,103,111,32,83,116>>]
DukeTeam ==
    [abbreviation |-> DUKE, location |-> DukeLoc, shortDisplayName |-> DukeLoc]

Teams == {SouthDakotaStateTeam, SanDiegoStateTeam, DukeTeam}

OtherSide(flag) == IF flag = "away" THEN "home" ELSE "away"

\* one game of the feed; the first competitor's score text is s1
Game(date, typeId, period, t1, flag1, s1, t2) ==
    [date |-> date,
     status |-> [typeId |-> typeId, period |-> period, displayClock |-> "4:32"],
     competitors |-> <<[homeAway |-> flag1, score |-> s1, team |-> t1],
                       [homeAway |-> OtherSide(flag1), score |-> <<55>>,
                        team |-> t2]>>]

\* games of one evening (23:00 UTC): Duke against either SDSU, and South Dakota
\* State against a team of its own description, either competitor listed first
Matchups ==
    {<<SouthDakotaStateTeam, DukeTeam>>, <<DukeTeam, SouthDakotaStateTeam>>,
     <<SanDiegoStateTeam, DukeTeam>>, <<DukeTeam, SanDiegoStateTeam>>,
     <<SouthDakotaStateTeam, SouthDakotaStateTeam>>}

MatchupGames ==
    {Game(1380, "1", 0, m[1], f, <<50,49>>, m[2]) :
        m \in Matchups, f \in {"home", "away"}}

\* an earlier game, and games in other states, with malformed score text
StatusGames ==
    {Game(1200, "3", 6, DukeTeam, "home", <<50,49>>, SanDiegoStateTeam),
     Game(1380, "7", 2, DukeTeam, "home", <<>>, SouthDakotaStateTeam),
     Game(1380, "17", 2, SanDiegoStateTeam, "away", <<32,51,120>>, DukeTeam),
     Game(1380, "2", 5, DukeTeam, "away", <<120>>, SouthDakotaStateTeam),
     Game(1380, "22", 3, SouthDakotaStateTeam, "home", <<45,49>>, DukeTeam),
     Game(1380, "99", 1, DukeTeam, "home", <<48>>, SanDiegoStateTeam)}

Games == MatchupGames \cup StatusGames

SeqsUpTo(S, n) == UNION {[1..k -> S] : k \in 0..n}

Inputs == SeqsUpTo(Games, MaxGames)

Perms(n) == {p \in [1..n -> 1..n] : Range(p) = 1..n}

\* response bodies: text parseJSON rejects, or JSON holding these events
Bodies ==
    {[valid |-> FALSE, events |-> <<>>]}
    \cup {[valid |-> TRUE, events |-> evs] : evs \in SeqsUpTo(StatusGames, 1)}

----------------------------------------------------------------------------
(* getScores: one invocation, the request callback and the parse callback *)

GsIdle ==
    /\ pc = "idle" /\ league = "" /\ teams = Null
    /\ requests = <<>> /\ response = Null /\ thrown = <<>>
    /\ callbacks = <<>> /\ log = <<>>
    /\ parseCalls = 0 /\ formatCalls = 0

FmtIdle ==
    /\ fLeague = "" /\ fTeams = Null
    /\ input0 = <<>> /\ events = <<>> /\ pre = <<>> /\ refs = <<>>
    /\ outs = <<>> /\ perm = <<>> /\ permOut = Null

Init == GsIdle /\ FmtIdle

\* getScores up to the return of request(): the URL is built from whatever
\* getLeaguePath returned and the request is issued; nothing is thrown
GetScores(lg, tms, gameDate) ==
    /\ pc = "idle"
    /\ pc' = "requested"
    /\ league' = lg
    /\ teams' = tms
    /\ requests' = Append(requests, BuildUrl(lg, gameDate))
    /\ UNCHANGED <<response, thrown, callbacks, log, parseCalls, formatCalls>>
    /\ UNCHANGED fmtVars

\* RetrievalOk without the test of the status code
RetrievalOkAnyStatus(r_err, resp) == r_err = Null

\* the condition under which the request callback goes on to parse the body
RetrievalOk(r_err, resp) == r_err = Null /\ resp[1].statusCode = 200

\* the callback of request(): r_err is Null or Some(cause), resp is Null or
\* Some([statusCode, body])
RequestCallback(r_err, resp) ==
    /\ pc = "requested"
    /\ response' = Some([r_err |-> r_err, resp |-> resp])
    /\ IF RetrievalOk(r_err, resp)
       THEN /\ pc' = "parsing"
            /\ parseCalls' = parseCalls + 1
            /\ log' = log
       ELSE /\ pc' = "done"
            /\ parseCalls' = parseCalls
            /\ log' = Append(log, [kind |-> "retrieve", league |-> league,
                                   cause |-> r_err])
    /\ UNCHANGED <<league, teams, requests, thrown, callbacks, formatCalls>>
    /\ UNCHANGED fmtVars

\* the callback of parseJSON(): a decode error is logged, decoded content is
\* formatted and handed to the caller's callback
ParseCallback ==
    /\ pc = "parsing"
    /\ pc' = "done"
    /\ LET body == response[1].resp[1].body
       IN  IF ~body.valid
           THEN /\ log' = Append(log, [kind |-> "parse", league |-> league,
                                       cause |-> Some("SyntaxError")])
                /\ UNCHANGED <<callbacks, formatCalls>>
           ELSE /\ formatCalls' = formatCalls + 1
                /\ callbacks' = Append(callbacks,
                       formatScores(league, body.events, teams).out)
                /\ log' = log
    /\ UNCHANGED <<league, teams, requests, response, thrown, parseCalls>>
    /\ UNCHANGED fmtVars

Next ==
    \/ \E lg \in Leagues, tms \in TeamFilters, gameDate \in GameDates :
           GetScores(lg, tms, gameDate)
    \/ \E cause \in {"ETIMEDOUT", "ECONNREFUSED"} :
           RequestCallback(Some(cause), Null)
    \/ \E statusCode \in {200, 404, 500}, body \in Bodies :
           RequestCallback(Null, Some([statusCode |-> statusCode, body |-> body]))
    \/ ParseCallback

Spec == Init /\ [][Next]_vars

----------------------------------------------------------------------------
(* formatScores applied to a bounded input, repeatedly and on permuted copies *)

InitFormat ==
    /\ GsIdle
    /\ \E a \in FormatArgs : fLeague = a[1] /\ fTeams = a[2]
    /\ input0 \in Inputs
    /\ events = input0
    /\ pre = input0
    /\ refs = <<>>
    /\ outs = <<>>
    /\ perm = <<>>
    /\ permOut = Null

\* one more call formatScores(fLeague, data, fTeams) on the same data object
CallFormatScores ==
    /\ Len(outs) < MaxCalls
    /\ permOut = Null
    /\ LET r == formatScores(fLeague, events, fTeams)
       IN  /\ pre' = events
           /\ events' = r.events
           /\ refs' = r.refs
           /\ outs' = Append(outs, r.out)
    /\ UNCHANGED <<fLeague, fTeams, input0, perm, permOut>>
    /\ UNCHANGED gsVars

\* a call on a freshly decoded copy of the input whose events are permuted by p
CallOnPermuted(p) ==
    /\ Len(outs) = 1
    /\ permOut = Null
    /\ perm' = p
    /\ permOut' = Some(formatScores(fLeague,
                           [i \in 1..Len(input0) |-> input0[p[i]]], fTeams).out)
    /\ UNCHANGED <<fLeague, fTeams, input0, events, pre, refs, outs>>
    /\ UNCHANGED gsVars

NextFormat ==
    \/ CallFormatScores
    \/ \E p \in Perms(Len(input0)) : CallOnPermuted(p)

FormatSpec == InitFormat /\ [][NextFormat]_vars

----------------------------------------------------------------------------
(* Properties of getScores (checked under Spec) *)

\* C1: for a league getLeaguePath maps to null, getScores issues no HTTP request
\* and signals an UnsupportedLeagueError instead of building a URL from null.
C1_UnsupportedLeagueFailsFast ==
    (pc /= "idle" /\ getLeaguePath(league) = Null)
        => (requests = <<>> /\ "UnsupportedLeagueError" \in Range(thrown))

\* C2: a finished getScores invocation has delivered exactly one outcome to its
\* caller: the formatted list through the callback, or a failure.
C2_ExactlyOneOutcome ==
    pc = "done" => Len(callbacks) + Len(thrown) = 1

\* C3: formatScores and the success callback run only after the single
\* retrieval came back without error with status 200 and the single decode
\* succeeded; after a transport error, another status or a decode error they
\* never run; one invocation issues at most one request.
C3_FormatOnlyAfterSuccess ==
    /\ Len(requests) <= 1
    /\ parseCalls <= 1
    /\ formatCalls <= 1
    /\ Len(callbacks) = formatCalls
    /\ formatCalls > 0 =>
          /\ response /= Null
          /\ response[1].r_err = Null
          /\ response[1].resp[1].statusCode = 200
          /\ response[1].resp[1].body.valid
          /\ parseCalls = 1
    /\ (pc = "done" /\ (\/ response[1].r_err /= Null
                        \/ response[1].resp[1].statusCode /= 200
                        \/ ~response[1].resp[1].body.valid))
          => (formatCalls = 0 /\ callbacks = <<>> /\ Len(log) = 1)

\* a finished invocation whose callback received one formatted game
C3_Witness ==
    /\ pc = "done"
    /\ formatCalls = 1
    /\ Len(callbacks) = 1
    /\ Len(callbacks[1]) = 1

----------------------------------------------------------------------------
(* Properties of formatScores (checked under FormatSpec) *)

\* the return value of the last call, and the game its k-th element was built from
LastOut == outs[Len(outs)]
SourceGame(k) == pre[refs[k]]

ContainsSouthDakotaState(loc) ==
    \E i \in 1..Len(loc) :
        /\ i + Len(SouthDakotaState) - 1 <= Len(loc)
        /\ \A j \in 1..Len(SouthDakotaState) : loc[i + j - 1] = SouthDakotaState[j]

\* the abbreviation the override rule asks for, for one competitor
ExpectedAbbreviation(c) ==
    IF /\ fLeague = "NCAAF"
       /\ c.team.abbreviation = SDSU
       /\ ContainsSouthDakotaState(c.team.location)
    THEN SDSU_SP
    ELSE c.team.abbreviation

FlaggedHome(g) == IF g.competitors[1].homeAway = "home" THEN 1 ELSE 2

\* C4: a game with status id "7" or "17" is emitted with gameMode 1, status
\* ["Delay"] and a classes list containing "delay"; any other game is emitted
\* with an empty classes list.
C4_DelayTagged ==
    outs /= <<>> =>
        \A k \in DOMAIN LastOut :
            IF SourceGame(k).status.typeId \in {"7", "17"}
            THEN /\ LastOut[k].gameMode = 1
                 /\ LastOut[k].status = <<"Delay">>
                 /\ "delay" \in Range(LastOut[k].classes)
            ELSE LastOut[k].classes = <<>>

\* C5: the SDSU override applies to each side on its own: every competitor with
\* abbreviation "SDSU" and a location containing "South Dakota State" in an
\* NCAAF game is emitted as "SDSU ", every other abbreviation is emitted as is.
C5_OverrideEachSide ==
    outs /= <<>> =>
        \A k \in DOMAIN LastOut :
            LET g == SourceGame(k)
                h == FlaggedHome(g)
            IN  /\ LastOut[k].hTeam = ExpectedAbbreviation(g.competitors[h])
                /\ LastOut[k].vTeam = ExpectedAbbreviation(g.competitors[3 - h])

\* C6: formatScores is pure: every call on the same league, data object and
\* team filter returns the same list, and the data object is left as it was.
C6_Pure ==
    /\ outs /= <<>> => events = pre
    /\ \A i \in DOMAIN outs : outs[i] = outs[1]

\* C7: the returned list does not depend on the order of the input events: the
\* call on any permutation of the input returns the list the input itself gives.
C7_OrderIndependent ==
    permOut /= Null => permOut[1] = outs[1]

\* no two retained games of the input share start time and away abbreviation
C7_NoTies ==
    LET kept == Range(FilterRefs(input0, fTeams))
    IN  \A i \in kept : \A j \in kept :
            (/\ i /= j
             /\ input0[i].date = input0[j].date
             /\ input0[i].competitors[3 - FlaggedHome(input0[i])].team.abbreviation
                  = input0[j].competitors[3 - FlaggedHome(input0[j])].team.abbreviation)
                => FALSE

\* C7 (amended): when no two retained games share both start time and visiting
\* team abbreviation, the call on any permutation of the input returns the
\* list the input itself gives.
C7_OrderIndependentWithoutTies ==
    (permOut /= Null /\ C7_NoTies) => permOut[1] = outs[1]

\* two retained games without a tie, formatted from the input and from the
\* input with the two exchanged
C7_Witness ==
    /\ permOut /= Null
    /\ perm = <<2, 1>>
    /\ C7_NoTies
    /\ Len(outs[1]) = 2
    /\ outs[1][1] /= outs[1][2]
    /\ permOut[1] = outs[1]

\* C8: the returned list is ordered by start time and, among games of equal
\* start time, by the emitted vTeam, ascending.
C8_SortedByEmittedVisitor ==
    outs /= <<>> =>
        \A i \in DOMAIN LastOut : \A j \in DOMAIN LastOut :
            i < j =>
                /\ SourceGame(i).date <= SourceGame(j).date
                /\ SourceGame(i).date = SourceGame(j).date
                      => ~StrLess(LastOut[j].vTeam, LastOut[i].vTeam)

\* C8 (amended): the returned list is ordered by start time and, among games of
\* equal start time, by the visiting team's abbreviation as the input gives it
\* (before the rewrite to "SDSU "), ascending.
C8_SortedByInputVisitor ==
    outs /= <<>> =>
        /\ Len(LastOut) = Len(refs)
        /\ \A i \in DOMAIN LastOut : \A j \in DOMAIN LastOut :
              i < j =>
                LET vi == SourceGame(i).competitors[3 - FlaggedHome(SourceGame(i))]
                    vj == SourceGame(j).competitors[3 - FlaggedHome(SourceGame(j))]
                IN  /\ SourceGame(i).date <= SourceGame(j).date
                    /\ SourceGame(i).date = SourceGame(j).date
                          => ~StrLess(vj.team.abbreviation, vi.team.abbreviation)

\* two NCAAF games of equal start time whose visitors are both "SDSU" in the
\* input, the first one emitted as "SDSU "
C8_Witness ==
    /\ Len(outs) = 1
    /\ fLeague = "NCAAF"
    /\ Len(LastOut) = 2
    /\ SourceGame(1).date = SourceGame(2).date
    /\ LastOut[1].vTeam = SDSU_SP
    /\ LastOut[2].vTeam = SDSU

\* C9: with a team filter the call emits exactly the input games in which a
\* competitor's abbreviation is in the filter, and with a null filter exactly
\* one FormattedGame per input game.
C9_FilterExact ==
    outs /= <<>> =>
        /\ Len(LastOut) = Len(refs)
        /\ \A i \in DOMAIN refs : \A j \in DOMAIN refs : refs[i] = refs[j] => i = j
        /\ Range(refs) =
              IF fTeams = Null THEN 1..Len(pre)
              ELSE {i \in 1..Len(pre) :
                       \E c \in 1..2 :
                           pre[i].competitors[c].team.abbreviation \in Range(fTeams[1])}
        /\ \A k \in DOMAIN LastOut :
              {LastOut[k].hScore, LastOut[k].vScore}
                  = {ParseInt(SourceGame(k).competitors[c].score) : c \in 1..2}

\* a filtered call that kept a game matching only by its second-listed
\* competitor and dropped another game
C9_Witness ==
    /\ outs /= <<>>
    /\ fTeams = Some(<<DUKE>>)
    /\ Len(pre) = 2
    /\ Len(LastOut) = 1
    /\ SourceGame(1).competitors[1].team.abbreviation /= DUKE
    /\ SourceGame(1).competitors[2].team.abbreviation = DUKE

\* the emitted abbreviation and score come from competitor c
C10_From(abbr, score, c) ==
    /\ score = ParseInt(c.score)
    /\ \/ abbr = c.team.abbreviation
       \/ fLeague = "NCAAF" /\ c.team.abbreviation = SDSU /\ abbr = SDSU_SP

\* C10: hTeam and hScore come from the competitor flagged home, vTeam and
\* vScore from the other one, whichever is listed first; the two sides are
\* never taken from the same competitor.
C10_HomeByFlag ==
    outs /= <<>> =>
        \A k \in DOMAIN LastOut :
            LET g == SourceGame(k)
                h == FlaggedHome(g)
                o == LastOut[k]
            IN  /\ C10_From(o.hTeam, o.hScore, g.competitors[h])
                /\ C10_From(o.vTeam, o.vScore, g.competitors[3 - h])
                /\ g.competitors[1].homeAway = "away" =>
                      /\ C10_From(o.hTeam, o.hScore, g.competitors[2])
                      /\ C10_From(o.vTeam, o.vScore, g.competitors[1])
                /\ o.hScore /= o.vScore

\* an emitted game whose first-listed competitor is the away team, with two
\* different teams
C10_Witness ==
    /\ outs /= <<>>
    /\ \E k \in DOMAIN LastOut :
          /\ SourceGame(k).competitors[1].homeAway = "away"
          /\ SourceGame(k).competitors[1].team.abbreviation = SDSU
          /\ LastOut[k].hTeam = DUKE
          /\ LastOut[k].vTeam \in {SDSU, SDSU_SP}

====
